---- MODULE Spec2Model ----
(***************************************************************************)
(* Model of gstreamer-cucumber (src/src/lib.rs): the World harness, its    *)
(* pipeline state controller (set_pipeline_state with the EOS drain), the  *)
(* teardown in Drop, validate activation and the property-path resolver    *)
(* (find_element_property).                                                *)
(*                                                                         *)
(* The GStreamer pipeline is the environment: it accepts or rejects a      *)
(* state change, completes asynchronous state changes on its own threads,  *)
(* and posts messages on its bus.  Every such answer is a nondeterministic *)
(* choice.                                                                 *)
(***************************************************************************)
EXTENDS Integers, Sequences, FiniteSets, TLC

\* ------------------------------------------------------------------ bounds
\* Scenario steps executed in one run (Drop comes on top of them).
MaxSteps == 4
\* Messages other than Eos/Error discarded by one drain wait.
MaxDiscard == 1
\* Lines a scenario writes to the validate configuration.
MaxConfigLines == 1
\* Reports the monitor files with one runner.
MaxReports == 1

\* ------------------------------------------------------- lifecycle states
\* gst::State, lib.rs:129-132
States == {"Null", "Ready", "Paused", "Playing"}

Void == "Void"

Rank(s) ==
    CASE s = "Null" -> 0
      [] s = "Ready" -> 1
      [] s = "Paused" -> 2
      [] s = "Playing" -> 3

\* The state names the match of set_pipeline_state knows.
StateNames == {"stop", "prepare", "pause", "play"}

\* Names a scenario may write in "I {word} the pipeline".
InputNames == StateNames \cup {"rewind"}

\* TargetState with the arms for "pause" and "play" exchanged.
TargetStateSwapped(name) ==
    CASE name = "stop" -> "Null"
      [] name = "prepare" -> "Ready"
      [] name = "pause" -> "Playing"
      [] name = "play" -> "Paused"

\* lib.rs:128-134, the arms of the match other than the panic.
TargetState(name) ==
    CASE name = "stop" -> "Null"
      [] name = "prepare" -> "Ready"
      [] name = "pause" -> "Paused"
      [] name = "play" -> "Playing"

VARIABLES
    featureValidate,  \* cfg!(feature = "validate") of the build
    debugAssertions,  \* cfg!(debug_assertions) of the build
    pipeline,         \* World.pipeline: "None" or "Some"
    current,          \* the pipeline's current gst::State
    pending,          \* target of an asynchronous state change, or Void
    runner,           \* World.validate.runner: 0 is None, n is the n-th Runner
    monitor,          \* World.validate.monitor: 0 is None, n reports to runner n
    attached,         \* monitors attached to pipelines so far
    validateconfig,   \* World.validate.validateconfig: << >> is None, <<lines>> is Some
    envConfig,        \* GST_VALIDATE_CONFIG: << >> is unset, <<lines>> the kept file
    validateInit,     \* gstvalidate::init() has run
    seqnumCounter,    \* last value handed out by the seqnum generator
    pc,               \* "idle", "wait" (in the bus loop), "dropped"
    caller,           \* who called set_pipeline_state: "step" or "drop"
    seqnum,           \* the local seqnum of the running drain
    log,              \* pipeline calls made by the latest set_pipeline_state
    discarded,        \* messages discarded by the running drain wait
    ret,              \* what the latest operation returned
    surfaced,         \* what its caller handed on to the scenario runner
    scenario,         \* "Ok" until a step fails, then that step's failure
    steps,            \* scenario steps executed
    lastStep,         \* the latest scenario step
    eosSent,          \* Eos events sent in this run
    nullRequests,     \* set_state(Null) requests issued in this run
    drains,           \* scenario "stop" steps that found the pipeline not Null
    propname,         \* the property path given to find_element_property
    found,            \* what find_element_property returned for it
    reports,          \* reports_count() of the current runner
    monitorConfig,    \* what GST_VALIDATE_CONFIG held when the monitor was created
    sinkFound,        \* by_name_recurse_up finds the element of the frame step
    hasProp,          \* that element has the property enable-last-sample
    enableLastSample, \* the value of enable-last-sample
    lastSample,       \* the element's last-sample holds a frame
    sampled,          \* what the latest get_last_frame returned
    now,              \* the clock, in milliseconds
    start,            \* the clock when the running poll loop began
    polls,            \* samples taken by the running poll loop
    fps,              \* frames per second the color verifier is configured with
    colour,           \* what the color verifier's latest poll saw
    dwellStart,       \* << >> until the first matching poll, then <<its time>>
    missed            \* a poll after the first match did not match

vars == <<featureValidate, debugAssertions, pipeline, current, pending, runner,
          monitor, attached, validateconfig, envConfig, validateInit, seqnumCounter, pc,
          caller, seqnum, log, discarded, ret, surfaced, scenario, steps,
          lastStep, eosSent, nullRequests, drains, propname, found, reports,
          monitorConfig, sinkFound, hasProp, enableLastSample, lastSample,
          sampled, now, start, polls, fps, colour, dwellStart, missed>>

\* ------------------------------------------------------------ environment
\* The states a state change from a to b passes through, both ends included.
Between(a, b) ==
    {s \in States : \/ (Rank(a) <= Rank(s) /\ Rank(s) <= Rank(b))
                    \/ (Rank(b) <= Rank(s) /\ Rank(s) <= Rank(a))}

\* pipeline.set_state(target), lib.rs:178-179: the pipeline's answers.  Success
\* reaches the target at once; Async (only upwards to Paused or Playing) leaves
\* it pending; Failure stops short of the target.
SetStateAnswers(cur, target) ==
    {[res |-> "Success", current |-> target, pending |-> Void]}
    \cup {[res |-> "Async", current |-> cur, pending |-> target] :
              t \in {target} \cap ({"Paused", "Playing"} \ {cur})}
    \cup {[res |-> "Failure", current |-> s, pending |-> Void] :
              s \in IF cur = target THEN {cur} ELSE Between(cur, target) \ {target}}

\* Messages the bus iterator of lib.rs:159 can yield.
Messages == {"Eos", "Error", "Other"}

\* One call made on the pipeline: op is "state", "send_event", "pop" or
\* "set_state"; sq is an event's seqnum (0 where there is none).
Entry(op, arg, sq, res) == [op |-> op, arg |-> arg, sq |-> sq, res |-> res]

\* The process-wide seqnum generator behind Seqnum::next() and behind every
\* event constructor.
NextSeqnum(c) == c + 1

build == <<featureValidate, debugAssertions>>
pipeVars == <<pipeline, current, pending>>
validateVars == <<runner, monitor, attached, validateconfig, envConfig,
                  validateInit, reports, monitorConfig>>
runVars == <<steps, lastStep, drains>>
resolveVars == <<propname, found>>
clockVars == <<now, start, polls>>
sinkVars == <<sinkFound, hasProp, enableLastSample, lastSample, sampled>>
colorVars == <<fps, colour, dwellStart, missed>>
probeVars == <<clockVars, sinkVars, colorVars>>

\* ---------------------------------------------------- find_element_property
\* Tokens in a path given to the resolver.
MaxTokens == 4

\* The pipeline a scenario configures: a bin with one child named "e".  The
\* element E has a leaf property p, an object-typed property o whose value is
\* the object O, and an object-typed property n whose value is null.  O has a
\* leaf property p and an object-typed property o that refers back to E.
NoObject == ""

Leaf == [type |-> "Leaf", value |-> NoObject]

ObjectTyped(v) == [type |-> "Object", value |-> v]

\* Bin::by_name, lib.rs:211-214.
Children == (<<"e">> :> "E")

\* The properties ObjectExt::find_property sees on an object, lib.rs:198.
PropsOf(o) ==
    CASE o = "E" -> (<<"p">> :> Leaf @@ <<"o">> :> ObjectTyped("O")
                     @@ <<"n">> :> ObjectTyped(NoObject))
      [] o = "O" -> (<<"p">> :> Leaf @@ <<"o">> :> ObjectTyped("E"))

\* str::split("::"), lib.rs:189: the pieces between the non-overlapping
\* occurrences of the delimiter, found from the left; a string without the
\* delimiter is one piece.
RECURSIVE Split(_)
Split(str) ==
    LET hits == {i \in 1..(Len(str) - 1) : str[i] = ":" /\ str[i + 1] = ":"}
    IN  IF hits = {}
           THEN <<str>>
           ELSE LET i == CHOOSE h \in hits : \A g \in hits : h <= g
                IN  <<SubSeq(str, 1, i - 1)>> \o Split(SubSeq(str, i + 2, Len(str)))

\* The results of find_element_property.  token is the token a not-found abort
\* names; pspec (<<name>>) and obj are the handle of an Ok.
Result(kind, token, pspec, obj) ==
    [kind |-> kind, token |-> token, pspec |-> pspec, obj |-> obj]

NoResult == Result("Unset", << >>, << >>, NoObject)

\* NotFound naming the whole path, as the abort of lib.rs:225 does.
NotFoundNamesPath(token, path) == Result("PanicNotFound", path, << >>, NoObject)

\* lib.rs:199 and lib.rs:216: panic!("Couldn't find element {}", token).
NotFound(token, path) == Result("PanicNotFound", token, << >>, NoObject)

\* FinishWalk returning a handle whenever an object was reached.
FinishWalkAnyObject(pspec, obj) ==
    IF obj # NoObject
       THEN Result("Ok", << >>, pspec, obj)
       ELSE Result("PanicMalformedPath", << >>, << >>, NoObject)

\* lib.rs:223-226: the handle when both are set, else the abort naming the
\* whole path.  pspec is << >> for None and <<name>> for Some.
FinishWalk(pspec, obj) ==
    IF pspec # << >> /\ obj # NoObject
       THEN Result("Ok", << >>, pspec, obj)
       ELSE Result("PanicMalformedPath", << >>, << >>, NoObject)

\* lib.rs:193-221: the loop over the tokens.  With no object yet the token is
\* looked up among the children of the bin.  With an object, a build with debug
\* assertions aborts if an attribute is pending (lib.rs:196); the token is then
\* looked up among the properties of the object: an object-typed property
\* becomes the new object and clears the pending attribute (reading a null value
\* as glib::Object aborts), any other property becomes the pending attribute of
\* the same object.
RECURSIVE Walk(_, _, _, _, _)
Walk(tokens, pspec, obj, dbg, path) ==
    IF tokens = << >> THEN FinishWalk(pspec, obj)
    ELSE LET token == Head(tokens) IN
         IF obj = NoObject
            THEN IF token \in DOMAIN Children
                    THEN Walk(Tail(tokens), pspec, Children[token], dbg, path)
                    ELSE NotFound(token, path)
         ELSE IF dbg /\ pspec # << >>
            THEN Result("PanicInvalidSpecifier", << >>, << >>, NoObject)
         ELSE IF token \notin DOMAIN PropsOf(obj)
            THEN NotFound(token, path)
         ELSE IF PropsOf(obj)[token].type = "Object"
            THEN IF PropsOf(obj)[token].value = NoObject
                    THEN Result("PanicNullObject", << >>, << >>, NoObject)
                    ELSE Walk(Tail(tokens), << >>, PropsOf(obj)[token].value, dbg, path)
         ELSE Walk(Tail(tokens), <<token>>, obj, dbg, path)

\* lib.rs:184-227.
FindElementProperty(pipe, path, dbg) ==
    IF pipe = "None"
       THEN Result("ErrNoPipeline", << >>, << >>, NoObject)
       ELSE Walk(Split(path), << >>, NoObject, dbg, path)

\* No frame step and no color verification is running: the variables of the
\* two poll loops at rest.
NoProbe ==
    /\ sinkFound = FALSE
    /\ hasProp = FALSE
    /\ enableLastSample = FALSE
    /\ lastSample = FALSE
    /\ sampled = "Nothing"
    /\ now = 0
    /\ start = 0
    /\ polls = 0
    /\ fps = 0
    /\ colour = "Nothing"
    /\ dwellStart = << >>
    /\ missed = FALSE

\* --------------------------------------------------------------- World::new
\* lib.rs:234-249: no pipeline, no runner, no monitor, no configuration.  The
\* two build switches are fixed for the run.
Init ==
    /\ featureValidate \in BOOLEAN
    /\ debugAssertions \in BOOLEAN
    /\ pipeline = "None"
    /\ current = "Null"
    /\ pending = Void
    /\ runner = 0
    /\ monitor = 0
    /\ attached = 0
    /\ validateconfig = << >>
    /\ envConfig = << >>
    /\ validateInit = FALSE
    /\ seqnumCounter = 0
    /\ pc = "idle"
    /\ caller = "step"
    /\ seqnum = 0
    /\ log = << >>
    /\ discarded = 0
    /\ ret = "Ok"
    /\ surfaced = "Ok"
    /\ scenario = "Ok"
    /\ steps = 0
    /\ lastStep = "none"
    /\ eosSent = 0
    /\ nullRequests = 0
    /\ drains = 0
    /\ propname = << >>
    /\ found = NoResult
    /\ reports = 0
    /\ monitorConfig = << >>
    /\ NoProbe

\* ------------------------------------------------------ set_pipeline_state
\* Flush decided by the run's monitor instead of the build.
FlushWhenMonitored == monitor # 0

\* lib.rs:143-147
Flush == featureValidate

\* lib.rs:149-156: the events of one drain, in the order they are sent.  sq is
\* the seqnum taken at line 149; FlushStart::new() sets none, so the event keeps
\* the one its constructor drew from the generator.
DrainEvents(flush, sq, fresh) ==
    (IF flush
        THEN <<Entry("send_event", "FlushStart", fresh, ""),
               Entry("send_event", "FlushStop", sq, "")>>
        ELSE << >>)
    \o <<Entry("send_event", "Eos", sq, "")>>

\* The generator after the events of one drain were built: every event
\* constructor draws one value, also when the builder then overrides it.
AfterDrainEvents(flush, c) ==
    IF flush THEN NextSeqnum(NextSeqnum(NextSeqnum(NextSeqnum(c))))
             ELSE NextSeqnum(NextSeqnum(c))

\* EndsWait breaking out on whatever message comes first.
EndsWaitOnAny(msg) == msg \in Messages

\* EndsWait with the Error arm left to the catch-all.
EndsWaitOnEosOnly(msg) == msg = "Eos"

\* lib.rs:162-174: the messages that break out of the bus loop.
EndsWait(msg) == msg \in {"Eos", "Error"}

\* MapResult with the error of set_state discarded.
MapResultAlwaysOk(res) == "Ok"

\* lib.rs:178-181: the result of set_state mapped to the function's result.
MapResult(res) == IF res = "Failure" THEN "ErrSetState" ELSE "Ok"

\* What the caller hands on: the step function returns the result (lib.rs:365),
\* Drop binds it to _ (lib.rs:49).
Surfaced(who, r) == IF who = "step" THEN r ELSE "Nothing"

\* The function returns r to who; a step that hands on a failure ends the
\* scenario.
Return(who, r) ==
    /\ ret' = r
    /\ surfaced' = Surfaced(who, r)
    /\ scenario' = IF who = "step" /\ Surfaced(who, r) # "Ok"
                     THEN Surfaced(who, r) ELSE scenario
    /\ pc' = IF who = "step" THEN "idle" ELSE "dropped"
    /\ discarded' = 0

\* lib.rs:178-181: the state-change request and the function's return.
RequestState(who, target, sofar) ==
    \E a \in SetStateAnswers(current, target) :
        /\ current' = a.current
        /\ pending' = a.pending
        /\ log' = Append(sofar, Entry("set_state", target, 0, a.res))
        /\ nullRequests' = nullRequests + (IF target = "Null" THEN 1 ELSE 0)
        /\ Return(who, MapResult(a.res))

\* AlreadyThere without the early return.
AlreadyThereNever(cur, target) == FALSE

\* lib.rs:138: the pipeline is found in the target state.
AlreadyThere(cur, target) == cur = target

\* lib.rs:136-158: the target is Null.  pipeline.state(ClockTime::NONE) blocks
\* while a state change is pending; a pipeline found in Null returns Ok, any
\* other gets the drain events and the function enters the bus loop.
StopPath(who) ==
    /\ pending = Void
    /\ IF AlreadyThere(current, "Null")
          THEN /\ log' = <<Entry("state", current, 0, "")>>
               /\ Return(who, "Ok")
               /\ UNCHANGED <<current, pending, seqnum, seqnumCounter, eosSent,
                              nullRequests>>
          ELSE /\ seqnum' = NextSeqnum(seqnumCounter)
               /\ log' = <<Entry("state", current, 0, "")>>
                          \o DrainEvents(Flush, NextSeqnum(seqnumCounter),
                                         NextSeqnum(NextSeqnum(seqnumCounter)))
               /\ seqnumCounter' = AfterDrainEvents(Flush, seqnumCounter)
               /\ eosSent' = eosSent + 1
               /\ pc' = "wait"
               /\ discarded' = 0
               /\ UNCHANGED <<current, pending, ret, surfaced, scenario,
                              nullRequests>>

\* EarlyReturn with the state name matched before the pipeline is looked up.
EarlyReturnNameFirst(pipe, name) ==
    IF name \notin StateNames THEN "PanicInvalidState"
    ELSE IF pipe = "None" THEN "ErrNoPipeline"
    ELSE "Go"

\* lib.rs:126-134: the checks made before the pipeline is touched, in the
\* order the code makes them.
EarlyReturn(pipe, name) ==
    IF pipe = "None" THEN "ErrNoPipeline"
    ELSE IF name \notin StateNames THEN "PanicInvalidState"
    ELSE "Go"

\* lib.rs:125-182 up to the first read of the bus.
SetPipelineState(name, who) ==
    /\ caller' = who
    /\ UNCHANGED <<resolveVars, probeVars>>
    /\ UNCHANGED <<build, pipeline, validateVars>>
    /\ IF EarlyReturn(pipeline, name) # "Go"
          THEN /\ log' = << >>
               /\ Return(who, EarlyReturn(pipeline, name))
               /\ UNCHANGED <<current, pending, seqnum, seqnumCounter, eosSent,
                              nullRequests>>
          ELSE IF TargetState(name) = "Null"
          THEN StopPath(who)
          ELSE /\ RequestState(who, TargetState(name), << >>)
               /\ UNCHANGED <<seqnum, seqnumCounter, eosSent>>

\* lib.rs:159-181: one turn of the bus loop.  A message that does not end the
\* wait is dropped; Eos or Error breaks out and the function goes on to the
\* state-change request.
\* The pipeline is taken to own a bus that is not flushing (bus().unwrap() at
\* lib.rs:158 succeeds and the iterator never ends by itself); which message
\* comes next, if any, is the pipeline's choice.
BusPop(msg) ==
    /\ pc = "wait"
    /\ UNCHANGED <<resolveVars, probeVars>>
    /\ UNCHANGED <<build, pipeline, validateVars, runVars, caller, seqnum,
                   seqnumCounter, eosSent>>
    /\ IF EndsWait(msg)
          THEN RequestState(caller, "Null", Append(log, Entry("pop", msg, 0, "")))
          ELSE /\ discarded < MaxDiscard
               /\ discarded' = discarded + 1
               /\ log' = Append(log, Entry("pop", msg, 0, ""))
               /\ UNCHANGED <<current, pending, pc, ret, surfaced, scenario,
                              nullRequests>>

\* ------------------------------------------------------------------- steps
\* A scenario step runs when the harness is idle and no earlier step failed.
CanStep ==
    /\ pc = "idle"
    /\ scenario = "Ok"
    /\ steps < MaxSteps

\* lib.rs:363-366, "I {word} the pipeline".
set_state(name) ==
    /\ CanStep
    /\ steps' = steps + 1
    /\ lastStep' = name
    /\ drains' = drains + (IF name = "stop" /\ pipeline = "Some" /\ current # "Null"
                             THEN 1 ELSE 0)
    /\ SetPipelineState(name, "step")

\* lib.rs:47-51: teardown requests "stop" and discards the result.
Drop ==
    /\ pc = "idle"
    /\ UNCHANGED runVars
    /\ SetPipelineState("stop", "drop")

\* lib.rs:97-104 (parse_launch answers with a pipeline in Null or an error) and
\* lib.rs:252-255, "Pipeline is '...'".
set_pipeline_from_description(parsed) ==
    /\ CanStep
    /\ UNCHANGED <<resolveVars, probeVars>>
    /\ steps' = steps + 1
    /\ lastStep' = "pipeline"
    /\ caller' = "step"
    /\ log' = << >>
    /\ IF parsed
          THEN /\ pipeline' = "Some"
               /\ current' = "Null"
               /\ pending' = Void
               /\ Return("step", "Ok")
          ELSE /\ Return("step", "ErrParse")
               /\ UNCHANGED pipeVars
    /\ UNCHANGED <<build, validateVars, seqnum, seqnumCounter, eosSent,
                   nullRequests, drains>>

\* lib.rs:109-111: a pipeline built by the caller, in whatever state it is.
set_pipeline(state) ==
    /\ CanStep
    /\ UNCHANGED <<resolveVars, probeVars>>
    /\ steps' = steps + 1
    /\ lastStep' = "pipeline"
    /\ caller' = "step"
    /\ log' = << >>
    /\ pipeline' = "Some"
    /\ current' = state
    /\ pending' = Void
    /\ Return("step", "Ok")
    /\ UNCHANGED <<build, validateVars, seqnum, seqnumCounter, eosSent,
                   nullRequests, drains>>

\* Configuration lines a scenario may give.
ConfigLines == {"core, action=set-property", "core, fail-on-missing-plugin=true"}

\* lib.rs:316-328, "The validate configuration '...'": the temporary file is
\* created on first use and the line appended.
add_validate_config(config) ==
    /\ featureValidate
    /\ UNCHANGED <<resolveVars, probeVars>>
    /\ CanStep
    /\ steps' = steps + 1
    /\ lastStep' = "config"
    /\ caller' = "step"
    /\ log' = << >>
    /\ validateInit' = TRUE
    /\ IF validateconfig = << >>
          THEN validateconfig' = << <<config>> >>
          ELSE /\ Len(validateconfig[1]) < MaxConfigLines
               /\ validateconfig' = <<Append(validateconfig[1], config)>>
    /\ Return("step", "Ok")
    /\ UNCHANGED <<build, pipeVars, runner, monitor, attached, envConfig, seqnum,
                   seqnumCounter, eosSent, nullRequests, drains, reports,
                   monitorConfig>>

\* lib.rs:330-361, "Validate is activated".  The debug assertion stops a second
\* activation in a build with debug assertions; the configuration file is taken
\* and published through the environment; the runner is stored before the
\* pipeline is looked up, the monitor after.
activate_validate ==
    /\ featureValidate
    /\ UNCHANGED <<resolveVars, probeVars>>
    /\ CanStep
    /\ steps' = steps + 1
    /\ lastStep' = "activate"
    /\ caller' = "step"
    /\ log' = << >>
    /\ IF debugAssertions /\ runner # 0
          THEN /\ Return("step", "PanicAlreadyActivated")
               /\ UNCHANGED validateVars
          ELSE /\ validateconfig' = << >>
               /\ envConfig' = IF validateconfig # << >> THEN validateconfig
                                                        ELSE envConfig
               /\ validateInit' = TRUE
               /\ runner' = runner + 1
               /\ reports' = 0
               /\ IF pipeline = "None"
                     THEN /\ Return("step", "ErrNoPipeline")
                          /\ UNCHANGED <<monitor, attached, monitorConfig>>
                     ELSE /\ monitor' = runner + 1
                          /\ attached' = attached + 1
                          /\ monitorConfig' = envConfig'
                          /\ Return("step", "Ok")
    /\ UNCHANGED <<build, pipeVars, seqnum, seqnumCounter, eosSent, nullRequests,
                   drains>>

\* lib.rs:300-313: both arms of the match are debug assertions, and the
\* function returns Ok(()) after them.
ValidateNoReports(run, count, dbg) ==
    IF run = 0
       THEN IF dbg THEN "PanicNotActivated" ELSE "Ok"
       ELSE IF dbg /\ count # 0 THEN "PanicReports" ELSE "Ok"

\* lib.rs:298-314, "Validate should not report any issue".
validate_no_reports ==
    /\ featureValidate
    /\ CanStep
    /\ steps' = steps + 1
    /\ lastStep' = "noreports"
    /\ caller' = "step"
    /\ log' = << >>
    /\ Return("step", ValidateNoReports(runner, reports, debugAssertions))
    /\ UNCHANGED <<build, pipeVars, validateVars, seqnum, seqnumCounter, eosSent,
                   nullRequests, drains, resolveVars, probeVars>>

\* The monitor created at lib.rs:355 files a report with its runner, from the
\* pipeline's threads.
MonitorReports ==
    /\ monitor # 0
    /\ monitor = runner
    /\ pc # "dropped"
    /\ reports < MaxReports
    /\ reports' = reports + 1
    /\ UNCHANGED <<build, pipeVars, runner, monitor, attached, validateconfig,
                   envConfig, validateInit, monitorConfig, runVars, seqnumCounter,
                   pc, caller, seqnum, log, discarded, ret, surfaced, scenario,
                   eosSent, nullRequests, resolveVars, probeVars>>

\* The pipeline finishes or abandons an asynchronous state change on its own
\* threads (the change requested at lib.rs:179 and awaited at lib.rs:137).
PipelineAsync(done) ==
    /\ pending # Void
    /\ UNCHANGED <<resolveVars, probeVars>>
    /\ current' = IF done THEN pending ELSE current
    /\ pending' = Void
    /\ UNCHANGED <<build, pipeline, validateVars, runVars, seqnumCounter, pc,
                   caller, seqnum, log, discarded, ret, surfaced, scenario,
                   eosSent, nullRequests>>

Next ==
    \/ \E name \in InputNames : set_state(name)
    \/ Drop
    \/ \E msg \in Messages : BusPop(msg)
    \/ \E parsed \in BOOLEAN : set_pipeline_from_description(parsed)
    \/ \E state \in States : set_pipeline(state)
    \/ \E done \in BOOLEAN : PipelineAsync(done)
    \/ \E config \in ConfigLines : add_validate_config(config)
    \/ activate_validate
    \/ validate_no_reports
    \/ MonitorReports

Spec == Init /\ [][Next]_vars

\* The pipeline posts the message that ends a drain wait (lib.rs:162-171).
PostsEnd == \E msg \in {"Eos", "Error"} : BusPop(msg)

\* The harness run on a pipeline that does not withhold that message for ever.
SpecLive == Init /\ [][Next]_vars /\ WF_vars(PostsEnd)

\* ------------------------------------------- the resolver on its own inputs
\* Pieces the paths tried are joined from: the names of the pipeline above, a
\* name nothing has, the empty piece and a lone colon.
Pieces == {<<"e">>, <<"p">>, <<"o">>, <<"n">>, <<"x">>, << >>, <<":">>}

RECURSIVE Join(_)
Join(pieces) ==
    IF Len(pieces) = 1 THEN pieces[1]
    ELSE pieces[1] \o <<":", ":">> \o Join(Tail(pieces))

PieceSeqs(n) == [1..n -> Pieces]

Paths == {Join(ps) : ps \in UNION {PieceSeqs(n) : n \in 1..MaxTokens}}

\* A World with or without a pipeline, in either build, about to resolve a path.
InitResolve ==
    /\ featureValidate = FALSE
    /\ debugAssertions \in BOOLEAN
    /\ pipeline \in {"None", "Some"}
    /\ current = "Null"
    /\ pending = Void
    /\ runner = 0
    /\ monitor = 0
    /\ attached = 0
    /\ validateconfig = << >>
    /\ envConfig = << >>
    /\ validateInit = FALSE
    /\ seqnumCounter = 0
    /\ pc = "idle"
    /\ caller = "step"
    /\ seqnum = 0
    /\ log = << >>
    /\ discarded = 0
    /\ ret = "Ok"
    /\ surfaced = "Ok"
    /\ scenario = "Ok"
    /\ steps = 0
    /\ lastStep = "none"
    /\ eosSent = 0
    /\ nullRequests = 0
    /\ drains = 0
    /\ propname \in Paths
    /\ found = NoResult
    /\ reports = 0
    /\ monitorConfig = << >>
    /\ NoProbe

\* lib.rs:184-227, called by the property steps at lib.rs:274 and lib.rs:283.
find_element_property ==
    /\ found = NoResult
    /\ reports = 0
    /\ monitorConfig = << >>
    /\ NoProbe
    /\ found' = FindElementProperty(pipeline, propname, debugAssertions)
    /\ UNCHANGED <<build, pipeVars, validateVars, runVars, seqnumCounter, pc,
                   caller, seqnum, log, discarded, ret, surfaced, scenario,
                   eosSent, nullRequests, propname, probeVars>>

NextResolve == find_element_property

SpecResolve == InitResolve /\ [][NextResolve]_vars

\* --------------------------------------------------------- the frame step
\* lib.rs:410, the pause between two polls, in milliseconds.
SleepMs == 500
\* lib.rs:402, Duration::from_secs(5).
TimeoutSecs == 5
MsPerSec == 1000
Timeout == TimeoutSecs * MsPerSec
\* Samples one frame step may take.
MaxPolls == 12

\* What the system clock shows beyond the requested pause when the task wakes:
\* nothing, a late wake-up, or a clock that was set back meanwhile.
ClockSteps == {0, SleepMs, 0 - 3 * SleepMs}

\* get_last_frame_on_element answering "no frame" where the retention flag is
\* missing or off.
GetLastFrameOnElementLenient(has, enabled, sample) ==
    IF has /\ enabled /\ sample THEN "Frame" ELSE "Absent"

\* lib.rs:381-397: the flag is read where the element has it and taken as false
\* where it has not; without it the call bails, with it last-sample is returned.
GetLastFrameOnElement(has, enabled, sample) ==
    LET enable_last_sample == IF has THEN enabled ELSE FALSE
    IN  IF ~enable_last_sample THEN "ErrCapability"
        ELSE IF sample THEN "Frame" ELSE "Absent"

\* lib.rs:368-377
GetLastFrame(pipe, foundSink, has, enabled, sample) ==
    IF pipe = "None" THEN "ErrNoPipeline"
    ELSE IF ~foundSink THEN "ErrNotFound"
    ELSE GetLastFrameOnElement(has, enabled, sample)

\* lib.rs:405-409: one sample of the loop and what the step does with it.
Sample ==
    LET r == GetLastFrame(pipeline, sinkFound, hasProp, enableLastSample, lastSample)
    IN  /\ sampled' = r
        /\ polls' = polls + 1
        /\ IF r = "Frame" THEN ret' = "Ok" /\ pc' = "done"
           ELSE IF r = "Absent" THEN ret' = ret /\ pc' = "sleep"
           ELSE ret' = r /\ pc' = "done"

\* lib.rs:411-417: Ok(elapsed) where the clock has not gone behind the start.
TimedOutAlways(t, began) == t >= began

TimedOut(t, began) == t >= began /\ t - began >= Timeout

\* lib.rs:399-409, "The user can see a frame on {word}": up to the first pause.
check_last_frame ==
    /\ pc = "idle"
    /\ start' = now
    /\ IF pipeline = "None"
          THEN /\ ret' = "ErrNoPipeline"
               /\ pc' = "done"
               /\ UNCHANGED <<sampled, polls>>
          ELSE Sample
    /\ UNCHANGED <<build, pipeVars, validateVars, runVars, resolveVars, colorVars,
                   seqnumCounter, caller, seqnum, log, discarded, surfaced,
                   scenario, eosSent, nullRequests, now, sinkFound, hasProp,
                   enableLastSample, lastSample>>

\* lib.rs:410-418 and round to lib.rs:405: the task wakes, checks the time and
\* either bails or samples again.
check_last_frame_wake(step) ==
    /\ pc = "sleep"
    /\ now' = now + SleepMs + step
    /\ IF TimedOut(now', start)
          THEN /\ ret' = "ErrTimeout"
               /\ pc' = "done"
               /\ UNCHANGED <<sampled, polls>>
          ELSE /\ polls < MaxPolls
               /\ Sample
    /\ UNCHANGED <<build, pipeVars, validateVars, runVars, resolveVars, colorVars,
                   seqnumCounter, caller, seqnum, log, discarded, surfaced,
                   scenario, eosSent, nullRequests, start, sinkFound, hasProp,
                   enableLastSample, lastSample>>

\* The sink retains its first frame while the step sleeps.
FrameArrives ==
    /\ pc = "sleep"
    /\ hasProp /\ enableLastSample /\ ~lastSample
    /\ lastSample' = TRUE
    /\ UNCHANGED <<build, pipeVars, validateVars, runVars, resolveVars, colorVars,
                   clockVars, seqnumCounter, pc, caller, seqnum, log, discarded,
                   ret, surfaced, scenario, eosSent, nullRequests, sinkFound,
                   hasProp, enableLastSample, sampled>>

\* The harness outside any step, its validate state empty.
AtRest ==
    /\ current = "Null"
    /\ pending = Void
    /\ runner = 0
    /\ monitor = 0
    /\ attached = 0
    /\ validateconfig = << >>
    /\ envConfig = << >>
    /\ validateInit = FALSE
    /\ reports = 0
    /\ monitorConfig = << >>
    /\ seqnumCounter = 0
    /\ pc = "idle"
    /\ caller = "step"
    /\ seqnum = 0
    /\ log = << >>
    /\ discarded = 0
    /\ ret = "Ok"
    /\ surfaced = "Ok"
    /\ scenario = "Ok"
    /\ steps = 0
    /\ lastStep = "none"
    /\ eosSent = 0
    /\ nullRequests = 0
    /\ drains = 0
    /\ propname = << >>
    /\ found = NoResult

\* A World with or without a pipeline about to run the frame step on an element
\* that is or is not there, with or without the retention flag, with or without
\* a frame already retained.
InitFrame ==
    /\ AtRest
    /\ featureValidate = FALSE
    /\ debugAssertions = FALSE
    /\ pipeline \in {"None", "Some"}
    /\ sinkFound \in BOOLEAN
    /\ hasProp \in BOOLEAN
    /\ enableLastSample \in BOOLEAN
    /\ lastSample \in BOOLEAN
    /\ enableLastSample => hasProp
    /\ lastSample => enableLastSample
    /\ sampled = "Nothing"
    /\ now = 0
    /\ start = 0
    /\ polls = 0
    /\ fps = 0
    /\ colour = "Nothing"
    /\ dwellStart = << >>
    /\ missed = FALSE

NextFrame ==
    \/ check_last_frame
    \/ \E step \in ClockSteps : check_last_frame_wake(step)
    \/ FrameArrives

SpecFrame == InitFrame /\ [][NextFrame]_vars

\* ------------------------------------------------------ color verification
\* verify_color(sink, expected, dwell = 1000ms, timeout = 5000ms): the defaults.
DwellMs == 1000
ColorTimeoutMs == 5000

\* Frame rates a source is configured with; zero is the rate that must not be
\* divided by.
Rates == {0, 5, 10}

\* Step f: the pause between two polls.
Interval(rate) == MsPerSec \div rate

\* What one poll sees: a frame whose palette holds the expected color, a frame
\* whose palette does not, or no frame.
Sights == {"match", "miss", "absent"}

\* The dwell start cleared by a poll that does not match.
DwellAfterResetOnMiss(ds, saw, t) ==
    IF saw = "match" THEN (IF ds = << >> THEN <<t>> ELSE ds) ELSE << >>

\* Step d: the dwell start is recorded by the first matching poll and kept.
DwellAfter(ds, saw, t) ==
    IF saw = "match" /\ ds = << >> THEN <<t>> ELSE ds

\* The deadline taken as passed at every poll.
ColorTimedOutAtOnce(t, began) == t >= began

\* Step e
ColorTimedOut(t, began) == t - began >= ColorTimeoutMs

\* Steps a to f for the poll taken at time t of the loop begun at time began.
Poll(saw, t, began) ==
    LET ds == DwellAfter(dwellStart, saw, t)
    IN  /\ colour' = saw
        /\ polls' = polls + 1
        /\ dwellStart' = ds
        /\ missed' = (missed \/ (dwellStart # << >> /\ saw # "match"))
        /\ IF saw = "match" /\ t - ds[1] >= DwellMs
              THEN ret' = "Ok" /\ pc' = "done"
              ELSE IF ColorTimedOut(t, began)
                      THEN ret' = "ErrTimeout" /\ pc' = "done"
                      ELSE ret' = ret /\ pc' = "sleep"

\* Steps 1 and 2 up to the first pause; a rate of zero is a configuration
\* error.
verify_color(saw) ==
    /\ pc = "idle"
    /\ start' = now
    /\ IF fps = 0
          THEN /\ ret' = "ErrConfiguration"
               /\ pc' = "done"
               /\ UNCHANGED <<colour, polls, dwellStart, missed>>
          ELSE Poll(saw, now, now)
    /\ UNCHANGED <<build, pipeVars, validateVars, runVars, resolveVars, sinkVars,
                   seqnumCounter, caller, seqnum, log, discarded, surfaced,
                   scenario, eosSent, nullRequests, now, fps>>

\* Step f and round to step a: the task wakes at the next frame boundary, or
\* one boundary late, and polls again.
verify_color_wake(saw, late) ==
    /\ pc = "sleep"
    /\ now' = now + Interval(fps) * (1 + late)
    /\ Poll(saw, now', start)
    /\ UNCHANGED <<build, pipeVars, validateVars, runVars, resolveVars, sinkVars,
                   seqnumCounter, caller, seqnum, log, discarded, surfaced,
                   scenario, eosSent, nullRequests, start, fps>>

\* A World with a playing pipeline about to verify a color on a sink that
\* retains frames, at one of the frame rates.
InitColor ==
    /\ AtRest
    /\ featureValidate = FALSE
    /\ debugAssertions = FALSE
    /\ pipeline = "Some"
    /\ sinkFound = TRUE
    /\ hasProp = TRUE
    /\ enableLastSample = TRUE
    /\ lastSample = FALSE
    /\ sampled = "Nothing"
    /\ now = 0
    /\ start = 0
    /\ polls = 0
    /\ fps \in Rates
    /\ colour = "Nothing"
    /\ dwellStart = << >>
    /\ missed = FALSE

NextColor ==
    \/ \E saw \in Sights : verify_color(saw)
    \/ \E saw \in Sights, late \in {0, 1} : verify_color_wake(saw, late)

SpecColor == InitColor /\ [][NextColor]_vars

\* ------------------------------------------------------------------ claims
IsEvent(e, kind) == e.op = "send_event" /\ e.arg = kind
IsRequest(e, target) == e.op = "set_state" /\ e.arg = target
IsPop(e) == e.op = "pop"

\* C1: in every drain run while a monitor is active, flush-start and then
\* flush-stop are sent strictly before end-of-stream, and all three events carry
\* the one seqnum generated for that drain.
C1_DrainEventsShareSeqnum ==
    (monitor # 0 /\ \E k \in DOMAIN log : IsEvent(log[k], "Eos")) =>
        \E i, j, k \in DOMAIN log :
            /\ i < j /\ j < k
            /\ IsEvent(log[i], "FlushStart") /\ log[i].sq = seqnum
            /\ IsEvent(log[j], "FlushStop") /\ log[j].sq = seqnum
            /\ IsEvent(log[k], "Eos") /\ log[k].sq = seqnum

\* C2: the state-change request to Null is issued only after the Eos event was
\* sent and the wait on the bus ended with an Eos or Error message: it is the
\* call right after that message, and no request is made before or during the
\* wait.
C2_StopRequestAfterWait ==
    \A i \in DOMAIN log :
        IsRequest(log[i], "Null") =>
            /\ pc # "wait"
            /\ i = Len(log)
            /\ i > 1
            /\ IsPop(log[i - 1]) /\ log[i - 1].arg \in {"Eos", "Error"}
            /\ \E k \in 1..(i - 1) :
                   /\ IsEvent(log[k], "Eos")
                   /\ \A m \in (k + 1)..(i - 1) : IsPop(log[m])
            /\ \A m \in 1..(i - 1) : ~IsRequest(log[m], "Null")

C2_Witness ==
    /\ Len(log) > 1
    /\ IsRequest(log[Len(log)], "Null")
    /\ \E m \in DOMAIN log : IsPop(log[m]) /\ log[m].arg = "Other"
    /\ log[1] = Entry("state", "Playing", 0, "")

\* The transition just taken is a request for "stop" by a step or by Drop.
StopRequested ==
    /\ pc = "idle"
    /\ \/ steps' = steps + 1 /\ lastStep' = "stop"
       \/ steps' = steps /\ caller' = "drop" /\ pc' # "idle"

\* C3: requesting Null of a pipeline that is in Null is a no-op: no event is
\* sent, the bus is not read, no state change is requested, the pipeline state
\* is unchanged and the call returns Ok.
C3_StopWhenStoppedIsNoOp ==
    [][(StopRequested /\ pipeline = "Some" /\ current = "Null") =>
          /\ log' = <<Entry("state", "Null", 0, "")>>
          /\ ret' = "Ok"
          /\ pc' # "wait"
          /\ current' = "Null" /\ pending' = pending
          /\ eosSent' = eosSent
          /\ nullRequests' = nullRequests
          /\ seqnumCounter' = seqnumCounter]_vars

C3_Witness ==
    /\ lastStep = "stop" /\ caller = "step"
    /\ log = <<Entry("state", "Null", 0, "")>>
    /\ drains = 1
    /\ ret = "Ok"

\* C4: an Error message read during the drain wait ends the wait; the error is
\* not the result of the transition; the state change to Null is still
\* requested, and its answer alone decides the result.
C4_ErrorEndsWaitAndStops ==
    \A i \in DOMAIN log :
        (IsPop(log[i]) /\ log[i].arg = "Error") =>
            /\ pc # "wait"
            /\ Len(log) = i + 1
            /\ IsRequest(log[i + 1], "Null")
            /\ ret = (IF log[i + 1].res = "Failure" THEN "ErrSetState" ELSE "Ok")

C4_Witness ==
    /\ Len(log) > 1
    /\ IsPop(log[Len(log) - 1]) /\ log[Len(log) - 1].arg = "Error"
    /\ IsRequest(log[Len(log)], "Null") /\ log[Len(log)].res = "Success"
    /\ ret = "Ok" /\ current = "Null"

\* C5: whenever the pipeline rejects a state change, the transition returns an
\* error and its caller hands the error on: no caller, teardown included,
\* drops it.
C5_RejectionIsSurfaced ==
    (pc # "wait" /\ log # << >> /\ log[Len(log)].op = "set_state"
        /\ log[Len(log)].res = "Failure") =>
        (ret = "ErrSetState" /\ surfaced = "ErrSetState")

\* The transition just taken is a step "I <name> the pipeline" with a name the
\* match does not know.
UnknownNameRequested ==
    /\ steps' = steps + 1
    /\ lastStep' \in InputNames \ {"stop", "prepare", "pause", "play"}

\* C6 as stated: a transition request with an unknown state name ends in the
\* abort, whether a pipeline is configured or not.
C6_UnknownNameAlwaysAborts ==
    [][UnknownNameRequested =>
          (ret' = "PanicInvalidState" /\ log' = << >>)]_vars

\* C6 as amended: with a pipeline configured the request aborts; with none it
\* returns the recoverable error of get_pipeline; in both cases nothing is sent
\* to a pipeline and its state is left alone.
C6_UnknownNameAbortsWithPipeline ==
    [][UnknownNameRequested =>
          /\ ret' = (IF pipeline = "Some" THEN "PanicInvalidState"
                                          ELSE "ErrNoPipeline")
          /\ surfaced' = ret'
          /\ log' = << >>
          /\ pc' = "idle"
          /\ UNCHANGED <<pipeline, current, pending, eosSent, nullRequests,
                         seqnumCounter>>]_vars

C6_Witness ==
    /\ lastStep = "rewind" /\ caller = "step"
    /\ pipeline = "Some" /\ current = "Playing"
    /\ ret = "PanicInvalidState"

\* The target a step name stands for, as the claim words it.
NamedTarget(name) ==
    CASE name = "prepare" -> "Ready"
      [] name = "pause" -> "Paused"
      [] name = "play" -> "Playing"

\* C7: a transition to Ready, Paused or Playing makes exactly one call on the
\* pipeline, the state-change request for the named target: no event, no read
\* of the bus, no state query; it returns at once, Ok when the request was
\* accepted, also when the state is still pending.
C7_PlainTransitionIsOneRequest ==
    [][(steps' = steps + 1 /\ lastStep' \in {"prepare", "pause", "play"}
           /\ pipeline = "Some") =>
          /\ Len(log') = 1
          /\ IsRequest(log'[1], NamedTarget(lastStep'))
          /\ pc' = "idle"
          /\ ret' = (IF log'[1].res = "Failure" THEN "ErrSetState" ELSE "Ok")
          /\ eosSent' = eosSent
          /\ seqnumCounter' = seqnumCounter]_vars

C7_Witness ==
    /\ lastStep = "play" /\ caller = "step"
    /\ log = <<Entry("set_state", "Playing", 0, "Async")>>
    /\ pc = "idle" /\ ret = "Ok"
    /\ pending = "Playing" /\ current = "Ready"

\* C8 as stated: a run whose last step requested Null of a pipeline that was
\* not in Null, followed by teardown, sends Eos once and requests Null once;
\* teardown finds the pipeline in Null and does nothing.
C8_DrainRunsOnce ==
    (pc = "dropped" /\ lastStep = "stop" /\ drains = 1) =>
        /\ eosSent = 1
        /\ nullRequests = 1
        /\ log = <<Entry("state", "Null", 0, "")>>

\* C8 as amended: the same, for a run in which the pipeline accepted the state
\* change to Null that the step requested.
C8_DrainRunsOnceWhenAccepted ==
    (pc = "dropped" /\ lastStep = "stop" /\ drains = 1 /\ scenario = "Ok") =>
        /\ eosSent = 1
        /\ nullRequests = 1
        /\ log = <<Entry("state", "Null", 0, "")>>

C8_Witness ==
    /\ pc = "dropped" /\ lastStep = "stop" /\ drains = 1 /\ scenario = "Ok"
    /\ eosSent = 1 /\ nullRequests = 1
    /\ log = <<Entry("state", "Null", 0, "")>>

\* What a path means on the pipeline above.  BaseAfter is the object its first
\* k tokens lead to: the child the first token names, then for each further
\* token the value of the object-typed property it names, or the same object
\* when it names a leaf property; NoObject when some token names nothing or a
\* null object.
RECURSIVE BaseAfter(_, _)
BaseAfter(tokens, k) ==
    IF k = 1
       THEN IF tokens[1] \in DOMAIN Children THEN Children[tokens[1]] ELSE NoObject
       ELSE LET b == BaseAfter(tokens, k - 1) IN
            IF b = NoObject THEN NoObject
            ELSE IF tokens[k] \notin DOMAIN PropsOf(b) THEN NoObject
            ELSE IF PropsOf(b)[tokens[k]].type = "Object"
                    THEN PropsOf(b)[tokens[k]].value
                    ELSE b

\* Token k names nothing: no child of the bin (k = 1), no property of the
\* object the tokens before it lead to (k > 1).
Missing(tokens, k) ==
    IF k = 1 THEN tokens[1] \notin DOMAIN Children
    ELSE /\ BaseAfter(tokens, k - 1) # NoObject
         /\ tokens[k] \notin DOMAIN PropsOf(BaseAfter(tokens, k - 1))

\* Token j names a property of the given type on the object before it.
NamesProperty(tokens, j, type) ==
    /\ j > 1
    /\ BaseAfter(tokens, j - 1) # NoObject
    /\ tokens[j] \in DOMAIN PropsOf(BaseAfter(tokens, j - 1))
    /\ PropsOf(BaseAfter(tokens, j - 1))[tokens[j]].type = type

\* Some token up to k comes after a token naming a leaf property.
TokenAfterLeaf(tokens, k) ==
    \E j \in 2..(k - 1) : NamesProperty(tokens, j, "Leaf")

Resolved == found # NoResult /\ pipeline = "Some"

\* C9 as stated: a token that names nothing makes the resolution fail with the
\* not-found outcome naming that token, for the first token and for any later
\* one, at any depth.
C9_MissingTokenIsNotFound ==
    Resolved =>
        \A k \in 1..Len(Split(propname)) :
            Missing(Split(propname), k) =>
                /\ found.kind = "PanicNotFound"
                /\ found.token = Split(propname)[k]

\* C9 as amended: the same, except that in a build with debug assertions a
\* path with a token after a leaf attribute ends in the invalid-specifier abort
\* before that token is looked up.
C9_MissingTokenIsNotFoundUnlessAfterLeaf ==
    Resolved =>
        \A k \in 1..Len(Split(propname)) :
            Missing(Split(propname), k) =>
                IF debugAssertions /\ TokenAfterLeaf(Split(propname), k)
                   THEN found.kind = "PanicInvalidSpecifier"
                   ELSE /\ found.kind = "PanicNotFound"
                        /\ found.token = Split(propname)[k]

C9_Witness ==
    /\ Resolved
    /\ Split(propname) = <<<<"e">>, <<"o">>, <<"o">>, <<"x">>>>
    /\ found.kind = "PanicNotFound"
    /\ found.token = <<"x">>

\* The path leads to an object and not to a leaf attribute: it is a node name
\* only, or every token resolves and the last names an object-typed property.
EndsOnObject(tokens) ==
    /\ BaseAfter(tokens, Len(tokens)) # NoObject
    /\ Len(tokens) = 1 \/ NamesProperty(tokens, Len(tokens), "Object")

\* C10: a resolution that runs out of tokens with no attribute pending fails
\* with the malformed-path abort; no path that ends on an object, a node name
\* only or one whose last token is an object-typed attribute, ever returns a
\* handle.  (A build with debug assertions stops a path with a token after a
\* leaf attribute before its tokens run out.)
C10_EndingOnObjectIsMalformed ==
    (Resolved /\ EndsOnObject(Split(propname))) =>
        /\ found.kind # "Ok"
        /\ ~(debugAssertions /\ TokenAfterLeaf(Split(propname), Len(Split(propname))))
              => found.kind = "PanicMalformedPath"

C10_Witness ==
    /\ Resolved
    /\ Split(propname) = <<<<"e">>, <<"o">>, <<"o">>, <<"o">>>>
    /\ found.kind = "PanicMalformedPath"

\* C11: sampling an element that lacks the retention flag, or has it off,
\* always answers with the capability error and never with "no frame"; a frame
\* or "no frame" is answered only where the flag exists and is on.
C11_NoFlagIsCapabilityError ==
    /\ (sampled # "Nothing" /\ sinkFound /\ ~(hasProp /\ enableLastSample))
           => sampled = "ErrCapability"
    /\ sampled \in {"Frame", "Absent"} => hasProp /\ enableLastSample
    /\ sampled = "Frame" => lastSample

C11_Witness == sampled = "ErrCapability" /\ hasProp /\ ~enableLastSample

\* The transition just taken is the step "Validate is activated".
Activating == steps' = steps + 1 /\ lastStep' = "activate"

\* C12: monitor activation succeeds at most once per run: an activation while
\* a runner is already held ends in the already-activated abort and leaves the
\* runner and the monitor as they were, attaching no second monitor.
C12_SecondActivationIsMisuse ==
    [][(Activating /\ runner # 0) =>
          /\ ret' = "PanicAlreadyActivated"
          /\ runner' = runner
          /\ monitor' = monitor
          /\ attached' = attached]_vars

\* The transition just taken is the step "Validate should not report any issue".
CheckingReports == steps' = steps + 1 /\ lastStep' = "noreports"

\* C13: the report assertion has exactly three outcomes: the not-activated
\* abort when no runner is held, a pass when the runner holds no report, and
\* the failure carrying the reports when it holds some; it never passes before
\* activation.
C13_ReportAssertionOutcomes ==
    [][CheckingReports =>
          ret' = IF runner = 0 THEN "PanicNotActivated"
                 ELSE IF reports = 0 THEN "Ok" ELSE "PanicReports"]_vars

\* C14: the configuration accumulated before an activation is what that
\* activation publishes and what its monitor is created under, and once a
\* monitor exists no later step changes the configuration the run's monitor
\* was created under.
C14_ConfigFixedAtActivation ==
    [][/\ (Activating /\ ret' # "PanicAlreadyActivated" /\ validateconfig # << >>)
            => /\ envConfig' = validateconfig
               /\ validateconfig' = << >>
               /\ monitor' # monitor => monitorConfig' = validateconfig
       /\ monitor # 0 => monitorConfig' = monitorConfig]_vars

\* C15: color verification succeeds only at a poll whose palette matches and
\* that comes at least the dwell time after the first matching poll; the dwell
\* start is the time of the first matching poll, is set once and is not
\* cleared by a miss; and the first matching poll that late does succeed,
\* whatever was missed in between.
C15_SuccessAfterDwellFromFirstMatch ==
    /\ [](pc = "done" /\ ret = "Ok" =>
             /\ colour = "match"
             /\ dwellStart # << >>
             /\ now - dwellStart[1] >= DwellMs)
    /\ [][/\ dwellStart # << >> => dwellStart' = dwellStart
          /\ (dwellStart = << >> /\ colour' = "match" /\ polls' = polls + 1)
                => dwellStart' = <<now'>>
          /\ (polls' = polls + 1 /\ colour' = "match"
                /\ now' - dwellStart'[1] >= DwellMs)
                => (pc' = "done" /\ ret' = "Ok")]_vars

C15_Witness ==
    /\ pc = "done" /\ ret = "Ok" /\ missed
    /\ now - dwellStart[1] = DwellMs
    /\ dwellStart[1] = start

\* C16: a verification that never sees the expected color ends in the timeout
\* error and not in success; the timeout error is returned only at a poll at
\* least the timeout after the start; the verifier never pauses again once the
\* timeout has passed; a poll without a frame fails only by that timeout.
C16_TimeoutOnlyAtDeadline ==
    /\ (pc = "done" /\ ret = "ErrTimeout") => now - start >= ColorTimeoutMs
    /\ (pc = "done" /\ dwellStart = << >> /\ fps # 0) => ret = "ErrTimeout"
    /\ (pc = "done" /\ colour = "absent") => ret = "ErrTimeout"
    /\ pc = "sleep" => now - start < ColorTimeoutMs

C16_Witness ==
    /\ pc = "done" /\ ret = "ErrTimeout" /\ dwellStart = << >>
    /\ colour = "absent"

\* The latest transition sent an event of this kind.
Sent(kind) == \E i \in 1..Len(log) : IsEvent(log[i], kind)

\* C17 as stated: a drain sends the flush bracket exactly when a validate
\* monitor has been activated for the run: a drain on a pipeline with no
\* monitor sends the end-of-stream event alone.
C17_FlushOnlyWhenMonitored ==
    Sent("Eos") =>
        /\ (Sent("FlushStart") /\ Sent("FlushStop")) <=> monitor # 0
        /\ monitor = 0 => ~Sent("FlushStart") /\ ~Sent("FlushStop")

\* C17, amended: a drain sends the flush bracket exactly when the build has
\* the validate feature, with or without an activated monitor; in a build
\* without the feature a drain sends the end-of-stream event alone.
C17_FlushFollowsTheBuild ==
    Sent("Eos") =>
        /\ (Sent("FlushStart") /\ Sent("FlushStop")) <=> featureValidate
        /\ ~featureValidate => ~Sent("FlushStart") /\ ~Sent("FlushStop")

C17_Witness ==
    /\ featureValidate /\ monitor = 0 /\ runner = 0
    /\ Sent("FlushStart") /\ Sent("FlushStop") /\ Sent("Eos")

\* C18: the drain wait ends only on an Eos or Error message, and then goes on
\* to the state-change request and returns; any other message is discarded
\* and the wait goes on; nothing else (no timeout) ends the wait; so on a
\* pipeline that eventually posts Eos or Error every wait ends.
C18_WaitEndsOnlyOnEosOrError ==
    /\ [][pc = "wait" =>
            /\ pc' # "wait" =>
                  /\ Len(log') = Len(log) + 2
                  /\ IsPop(log'[Len(log) + 1])
                  /\ log'[Len(log) + 1].arg \in {"Eos", "Error"}
                  /\ IsRequest(log'[Len(log) + 2], "Null")
                  /\ pc' \in {"idle", "dropped"}
            /\ (pc' = "wait" /\ log' # log) =>
                  /\ Len(log') = Len(log) + 1
                  /\ IsPop(log'[Len(log')])
                  /\ log'[Len(log')].arg \notin {"Eos", "Error"}
                  /\ discarded' = discarded + 1]_vars
    /\ (pc = "wait") ~> (pc # "wait")

C18_Witness ==
    /\ pc = "dropped" /\ caller = "drop"
    /\ Len(log) > 2
    /\ IsRequest(log[Len(log)], "Null")
    /\ IsPop(log[Len(log) - 1]) /\ log[Len(log) - 1].arg = "Eos"
    /\ IsPop(log[Len(log) - 2]) /\ log[Len(log) - 2].arg = "Other"

\* C19: a path resolves only if every token but the last names the node or an
\* object-typed attribute, the value of each such attribute being the base of
\* the next token and the handle being the last token on the last base; and a
\* path with a further token after a leaf attribute is rejected as an invalid
\* specifier, not resolved against the object that owns the leaf.
C19_TokenAfterLeafIsInvalid ==
    Resolved =>
        LET tokens == Split(propname) IN
        /\ found.kind = "Ok" =>
              /\ Len(tokens) > 1
              /\ \A k \in 2..(Len(tokens) - 1) : NamesProperty(tokens, k, "Object")
              /\ NamesProperty(tokens, Len(tokens), "Leaf")
              /\ found.obj = BaseAfter(tokens, Len(tokens) - 1)
              /\ found.pspec = <<tokens[Len(tokens)]>>
        /\ TokenAfterLeaf(tokens, Len(tokens)) =>
              found.kind = "PanicInvalidSpecifier"

\* C20: the frame step succeeds at the first sample that finds a frame and
\* otherwise sleeps and samples again; it ends in the timeout error only on
\* waking from a sleep with at least the timeout elapsed since its start, and
\* takes no sample after that sleep, so a frame retained during it is not
\* seen; a sample without a frame is no error by itself; a sampling error (no
\* pipeline, element not found, retention flag not on) ends the step at once.
C20_FrameStepPolling ==
    /\ [](/\ sampled = "Frame" <=> (pc = "done" /\ ret = "Ok")
          /\ sampled = "Absent" =>
                (pc = "sleep" \/ (pc = "done" /\ ret = "ErrTimeout"))
          /\ (pc = "done" /\ ret = "ErrTimeout") =>
                (now - start >= Timeout /\ now - start >= SleepMs
                   /\ polls >= 1 /\ sampled = "Absent")
          /\ sampled \in {"ErrNotFound", "ErrCapability"} =>
                (pc = "done" /\ ret = sampled /\ polls = 1 /\ now = start)
          /\ (pc = "done" /\ ret = "ErrNoPipeline") => (polls = 0 /\ now = start))
    /\ [][/\ (pc = "sleep" /\ now' - start >= Timeout) =>
                (pc' = "done" /\ ret' = "ErrTimeout"
                   /\ polls' = polls /\ sampled' = sampled)
          /\ (pc = "sleep" /\ pc' = "sleep" /\ now' # now) =>
                (polls' = polls + 1 /\ now' - start < Timeout)]_vars

C20_Witness ==
    /\ pc = "done" /\ ret = "ErrTimeout"
    /\ lastSample /\ sampled = "Absent"
    /\ now - start = Timeout

====
